---- MODULE Spec2Model ----
(***************************************************************************)
(* A model of src/joy.py: the piecewise-linear dead-zone mapping calc_f,   *)
(* the Joy serial client (handshake, configuration load with fallback to   *)
(* calibration, the calibration loops, get_data) and the JoyMouse action   *)
(* translator (_mouse, _keys, step).                                       *)
(*                                                                         *)
(* Python floats are modelled as exact rationals <<n, d>> in lowest terms  *)
(* with d > 0.  Exceptions are modelled as an error outcome that ends the  *)
(* running operation (pc = "failed", err = the exception's name).          *)
(***************************************************************************)
EXTENDS Integers, Sequences, FiniteSets, TLC

VARIABLES
    pc,                 \* position of the running operation
    err,                \* the exception that ended it, "none" otherwise
    hsByte,             \* the byte read by the handshake (0: not read yet)
    hsReads,            \* handshake reads made on the link
    sent,               \* read-sample requests written since the operation began
    reads,              \* reply reads made since then
    got,                \* bytes the last of them delivered (-1: none made)
    stream,             \* the two axis samples the device alternates between
    pos,                \* which of them the next reply carries
    config_file,        \* Joy.config_file
    disk,               \* content of the calibration file
    loadCalled,         \* load_config has been entered
    calEntered,         \* calibrate has been entered
    center,             \* Joy._center
    center_x_interval,  \* Joy._center_x_interval
    center_y_interval,  \* Joy._center_y_interval
    x_interval,         \* Joy._x_interval
    y_interval,         \* Joy._y_interval
    count,              \* calibrate's count argument
    i,                  \* calibrate's loop index
    mode,               \* JoyMouse.mode
    old_btn_mask,       \* JoyMouse._old_btn_mask
    last,               \* arguments of the last get_data / _mouse / _keys call, and the mask stored before it
    actions,            \* the action list built by the last step / _keys / _mouse
    xdotool,            \* the argument list of the last subprocess.call, <<>> if none
    trail,              \* what _keys has emitted so far, symbol by symbol
    calc                \* one application of calc_f: its arguments and its result

vars == <<pc, err, hsByte, hsReads, sent, reads, got, stream, pos, config_file, disk,
          loadCalled, calEntered, center, center_x_interval, center_y_interval,
          x_interval, y_interval, count, i, mode, old_btn_mask, last,
          actions, xdotool, trail, calc>>

(***************************************************************************)
(* Bounds of the model.                                                    *)
(***************************************************************************)
MaxNum == 4         \* calc_f is applied to interval bounds in 0..MaxNum
MaxADC == 1         \* raw axis readings are in 0..MaxADC
MaxDen == 3         \* _mouse is applied to positions k/d with d in 1..MaxDen
MaxBits == 2        \* _keys is called with masks of at most MaxBits set bits

(***************************************************************************)
(* Exact rationals.                                                        *)
(***************************************************************************)
Abs(a) == IF a < 0 THEN -a ELSE a

RECURSIVE Gcd(_, _)
Gcd(a, b) == IF b = 0 THEN a ELSE Gcd(b, a % b)

\* n/d in lowest terms with a positive denominator (d # 0)
Rat(n, d) ==
    LET g == Gcd(Abs(n), Abs(d))
        s == IF d < 0 THEN -1 ELSE 1
    IN  <<(s * n) \div g, (s * d) \div g>>

R(k) == <<k, 1>>
RAdd(a, b) == Rat(a[1] * b[2] + b[1] * a[2], a[2] * b[2])
RSub(a, b) == Rat(a[1] * b[2] - b[1] * a[2], a[2] * b[2])
RNeg(a) == <<-a[1], a[2]>>
RMul(a, b) == Rat(a[1] * b[1], a[2] * b[2])
RLt(a, b) == a[1] * b[2] < b[1] * a[2]
RLe(a, b) == a[1] * b[2] <= b[1] * a[2]
RMin(a, b) == IF RLt(b, a) THEN b ELSE a
RMax(a, b) == IF RLt(a, b) THEN b ELSE a

\* Python's a / b: ZeroDivisionError when b is zero
Ok(v) == [ok |-> TRUE, v |-> v]
ZeroDivisionError == [ok |-> FALSE, v |-> "ZeroDivisionError"]
PyDiv(a, b) == IF b[1] = 0 THEN ZeroDivisionError
               ELSE Ok(Rat(a[1] * b[2], a[2] * b[1]))

\* Python's int(x) on a float: truncation toward zero
PyIntFloor(a) == a[1] \div a[2]
PyInt(a) == IF a[1] >= 0 THEN a[1] \div a[2] ELSE -((-a[1]) \div a[2])

(***************************************************************************)
(* Interval (module interval, imported by joy.py).                         *)
(***************************************************************************)
None == [none |-> TRUE]
Interval(l, r) == [left |-> l, right |-> r]

\* the ADC -> physical conversion: an opaque monotonic transform; a
\* decreasing one is taken, so that adc2r has to re-sort the bounds
ADCFull == 1023
getRbyADC(v) == RSub(R(ADCFull), v)

extend(I, v) == Interval(RMin(I.left, v), RMax(I.right, v))
adc2r(I) == Interval(RMin(getRbyADC(I.left), getRbyADC(I.right)),
                     RMax(getRbyADC(I.left), getRbyADC(I.right)))

(***************************************************************************)
(* calc_f                                                                  *)
(***************************************************************************)
\* mutant: the first test made inclusive
calc_f_closed(inter1, inter2, val) ==
    IF RLe(val, inter1.left) THEN Ok(R(-1))
    ELSE IF RLt(val, inter2.left)
         THEN PyDiv(RNeg(RSub(val, inter2.left)), RSub(inter1.left, inter2.left))
    ELSE IF RLt(val, inter2.right) THEN Ok(R(0))
    ELSE IF RLt(val, inter1.right)
         THEN PyDiv(RSub(val, inter2.right), RSub(inter1.right, inter2.right))
    ELSE Ok(R(1))

\* mutant: the second test made inclusive
calc_f_ramp_closed(inter1, inter2, val) ==
    IF RLt(val, inter1.left) THEN Ok(R(-1))
    ELSE IF RLe(val, inter2.left)
         THEN PyDiv(RNeg(RSub(val, inter2.left)), RSub(inter1.left, inter2.left))
    ELSE IF RLt(val, inter2.right) THEN Ok(R(0))
    ELSE IF RLt(val, inter1.right)
         THEN PyDiv(RSub(val, inter2.right), RSub(inter1.right, inter2.right))
    ELSE Ok(R(1))

\* mutant: the right ramp divided by the dead zone's width
calc_f_steep(inter1, inter2, val) ==
    IF RLt(val, inter1.left) THEN Ok(R(-1))
    ELSE IF RLt(val, inter2.left)
         THEN PyDiv(RNeg(RSub(val, inter2.left)), RSub(inter1.left, inter2.left))
    ELSE IF RLt(val, inter2.right) THEN Ok(R(0))
    ELSE IF RLt(val, inter1.right)
         THEN PyDiv(RSub(val, inter2.right), RSub(inter2.right, inter2.left))
    ELSE Ok(R(1))

\* mutant: the left ramp without its leading minus
calc_f_unsigned(inter1, inter2, val) ==
    IF RLt(val, inter1.left) THEN Ok(R(-1))
    ELSE IF RLt(val, inter2.left)
         THEN PyDiv(RSub(val, inter2.left), RSub(inter1.left, inter2.left))
    ELSE IF RLt(val, inter2.right) THEN Ok(R(0))
    ELSE IF RLt(val, inter1.right)
         THEN PyDiv(RSub(val, inter2.right), RSub(inter1.right, inter2.right))
    ELSE Ok(R(1))

calc_f(inter1, inter2, val) ==
    IF RLt(val, inter1.left) THEN Ok(R(-1))
    ELSE IF RLt(val, inter2.left)
         THEN PyDiv(RNeg(RSub(val, inter2.left)), RSub(inter1.left, inter2.left))
    ELSE IF RLt(val, inter2.right) THEN Ok(R(0))
    ELSE IF RLt(val, inter1.right)
         THEN PyDiv(RSub(val, inter2.right), RSub(inter1.right, inter2.right))
    ELSE Ok(R(1))

(***************************************************************************)
(* JoyMouse: _mouse and _keys                                              *)
(***************************************************************************)
RELATIVE_MODE == 0
ABSOLUTE_MODE == 1

\* insertion order of the dict, which is its iteration order
_BTN_ASSOC == <<[k |-> 0, tp |-> "key", val |-> "Right"],
                [k |-> 1, tp |-> "key", val |-> "Up"],
                [k |-> 2, tp |-> "key", val |-> "Left"],
                [k |-> 3, tp |-> "key", val |-> "Down"],
                [k |-> 5, tp |-> "mouse", val |-> "3"],
                [k |-> 6, tp |-> "mouse", val |-> "1"]>>

\* mutant: int() taken as a floor
_mouse_floor(m, xPos, yPos) ==
    LET param == IF m = RELATIVE_MODE THEN "mousemove" \o "_relative" ELSE ""
        cube(p) == RMul(RMul(RMul(p, R(10)), RMul(p, R(10))), RMul(p, R(10)))
        paramX == PyIntFloor(IF m = RELATIVE_MODE THEN cube(xPos) ELSE xPos)
        paramY == PyIntFloor(IF m = RELATIVE_MODE THEN cube(yPos) ELSE yPos)
    IN  IF ~(paramX = paramY /\ paramY = 0)
        THEN <<param, "--", ToString(paramX), ToString(paramY)>>
        ELSE <<>>

\* "mousemove" + "_relative" if ... else "" groups as
\* ("mousemove" + "_relative") if ... else ""
_mouse(m, xPos, yPos) ==
    LET param == IF m = RELATIVE_MODE THEN "mousemove" \o "_relative" ELSE ""
        cube(p) == RMul(RMul(RMul(p, R(10)), RMul(p, R(10))), RMul(p, R(10)))
        paramX == PyInt(IF m = RELATIVE_MODE THEN cube(xPos) ELSE xPos)
        paramY == PyInt(IF m = RELATIVE_MODE THEN cube(yPos) ELSE yPos)
    IN  IF ~(paramX = paramY /\ paramY = 0)
        THEN <<param, "--", ToString(paramX), ToString(paramY)>>
        ELSE <<>>

\* btnMask >> k & 1 groups as (btnMask >> k) & 1
Bit(mask, k) == (mask \div (2 ^ k)) % 2

\* mutant: "down" and "up" exchanged
KeyEdge_swapped(old, btnMask, e) ==
    LET newVal == Bit(btnMask, e.k)
    IN  IF newVal # Bit(old, e.k)
        THEN <<e.tp \o (IF newVal # 0 THEN "up" ELSE "down"), e.val>>
        ELSE <<>>

\* mutant: an action for the level of the bit, not for its change
KeyEdge_level(old, btnMask, e) ==
    LET newVal == Bit(btnMask, e.k)
    IN  IF newVal # 0
        THEN <<e.tp \o "down", e.val>>
        ELSE <<>>

\* the body of the loop of _keys for one entry of the table
KeyEdge(old, btnMask, e) ==
    LET newVal == Bit(btnMask, e.k)
    IN  IF newVal # Bit(old, e.k)
        THEN <<e.tp \o (IF newVal # 0 THEN "down" ELSE "up"), e.val>>
        ELSE <<>>

\* mutant: the table walked from its last entry to its first
RECURSIVE KeyLoop_reversed(_, _, _)
KeyLoop_reversed(old, btnMask, n) ==
    IF n > Len(_BTN_ASSOC) THEN <<>>
    ELSE KeyLoop_reversed(old, btnMask, n + 1) \o KeyEdge(old, btnMask, _BTN_ASSOC[n])

RECURSIVE KeyLoop(_, _, _)
KeyLoop(old, btnMask, n) ==
    IF n > Len(_BTN_ASSOC) THEN <<>>
    ELSE KeyEdge(old, btnMask, _BTN_ASSOC[n]) \o KeyLoop(old, btnMask, n + 1)

\* the list _keys returns; it also stores btnMask as the previous mask
_keys(old, btnMask) == KeyLoop(old, btnMask, 1)

\* A record of the lists _keys has returned: for each symbol of the table
\* whether the last action emitted for it is a press, and whether so far
\* every press of a symbol came first or after a release of it, and every
\* release after a press.
Symbols == {_BTN_ASSOC[n].val : n \in 1..Len(_BTN_ASSOC)}
NoTrail == [pressed |-> [sym \in Symbols |-> FALSE], alternating |-> TRUE]

RECURSIVE Observe(_, _)
Observe(t, acts) ==
    IF acts = <<>> THEN t
    ELSE LET press == acts[1] \in {"keydown", "mousedown"}
             sym == acts[2]
         IN  Observe([pressed |-> [t.pressed EXCEPT ![sym] = press],
                      alternating |-> t.alternating /\ (press # t.pressed[sym])],
                     SubSeq(acts, 3, Len(acts)))

(***************************************************************************)
(* The serial link.  The device answers each read-sample request with the  *)
(* axis readings of its stick, which alternates between two positions, and *)
(* with any button mask.                                                   *)
(***************************************************************************)
PROTOCOL_VERSION == 98          \* b'b'
FmtSize == 7                    \* struct.calcsize(">hhbbB")
ReplyLens == {0, FmtSize - 1, FmtSize}  \* no byte, one byte missing, a full reply
StructError == [ok |-> FALSE, v |-> "struct.error"]
HandshakeBytes == {PROTOCOL_VERSION, 66, 0}
ButtonMasks == 0..255           \* uint8, the B of _FMT
StepMasks == {0, 64, 65, 144}   \* the masks the device sends in Spec

\* the masks _keys is called with in SpecKeys: at most MaxBits buttons down
RECURSIVE BitCount(_)
BitCount(m) == IF m = 0 THEN 0 ELSE (m % 2) + BitCount(m \div 2)
KeyMasks == {m \in ButtonMasks : BitCount(m) <= MaxBits}

ADCValues == 0..MaxADC
AxisSamples == ADCValues \X ADCValues
Streams == AxisSamples \X AxisSamples
BaseStream == <<<<0, 0>>, <<1, 1>>>>

(***************************************************************************)
(* The calibration file: a sequence of lines, a line a sequence of tokens  *)
(* (what split(" ") gives), a token a number or not.  <<>> is no file.     *)
(***************************************************************************)
Absent == <<>>
Num(v) == [num |-> TRUE, val |-> v]
Junk == [num |-> FALSE, val |-> R(0)]       \* "abc", or "" for an empty line
ConfigLines == 5

GoodFile == << <<Num(R(1022)), Num(R(1023))>>,
               <<Num(R(1022)), Num(R(1022))>>,
               <<Num(R(1023)), Num(R(1023))>>,
               <<Num(R(1020)), Num(R(1024))>>,
               <<Num(R(1020)), Num(R(1024))>> >>

BadLine(kind) ==
    CASE kind = "junk"  -> <<Num(R(1022)), Junk>>
      [] kind = "empty" -> <<Junk>>
      [] kind = "one"   -> <<Num(R(1022))>>
      [] kind = "three" -> <<Num(R(1020)), Num(R(1022)), Num(R(1024))>>

BadKinds == {"junk", "empty", "one", "three"}
MalformedFiles == {[GoodFile EXCEPT ![k] = BadLine(kind)] :
                       k \in 1..ConfigLines, kind \in BadKinds}

\* [float(x) for x in line.split(" ")]: ValueError on a token that is no number
ValueError == [ok |-> FALSE, v |-> "ValueError"]
TypeError == [ok |-> FALSE, v |-> "TypeError"]
Floats(line) ==
    IF \A j \in 1..Len(line) : line[j].num
    THEN Ok([j \in 1..Len(line) |-> line[j].val])
    ELSE ValueError

\* f.readline(): the k-th line, "" at the end of the file
ReadLine(f, k) == IF k <= Len(f) THEN f[k] ELSE <<Junk>>

\* Interval(*args): the constructor takes exactly two bounds
IntervalOf(args) ==
    IF Len(args) = 2 THEN Ok(Interval(args[1], args[2])) ELSE TypeError

\* lines 2..5 of load_config, each assigned as soon as it is built
RECURSIVE LoadIntervals(_, _, _)
LoadIntervals(f, k, ivs) ==
    IF k > ConfigLines THEN [res |-> "ok", ivs |-> ivs]
    ELSE LET p == Floats(ReadLine(f, k))
             iv == IntervalOf(p.v)
         IN  IF ~p.ok THEN [res |-> p.v, ivs |-> ivs]
             ELSE IF ~iv.ok THEN [res |-> iv.v, ivs |-> ivs]
             ELSE LoadIntervals(f, k + 1, [ivs EXCEPT ![k - 1] = iv.v])

\* load_config: how it ends ("ok" or the exception) and the attributes then
load_config(cf, f, c, ivs) ==
    IF cf = "None" THEN [res |-> "ok", center |-> c, ivs |-> ivs]
    ELSE IF f = Absent THEN [res |-> "FileNotFoundError", center |-> c, ivs |-> ivs]
    ELSE LET p == Floats(ReadLine(f, 1))
             r == LoadIntervals(f, 2, ivs)
         IN  IF ~p.ok THEN [res |-> p.v, center |-> c, ivs |-> ivs]
             ELSE [res |-> r.res, center |-> p.v, ivs |-> r.ivs]

\* the lines save_config writes
IntervalStr(I) == <<Num(I.left), Num(I.right)>>
save_config(cf, f, c, cxi, cyi, xi, yi) ==
    IF cf = "None" THEN f
    ELSE << [j \in 1..Len(c) |-> Num(c[j])],
            IntervalStr(cxi), IntervalStr(cyi), IntervalStr(xi), IntervalStr(yi) >>

(***************************************************************************)
(* Joy: construction, calibration, get_data                                *)
(***************************************************************************)
DefaultCount == 500             \* calibrate(self, count=500)
PercentSteps == 100             \* i % (count // 100)

varsProfile == <<center, center_x_interval, center_y_interval, x_interval, y_interval>>
varsMouse == <<mode, old_btn_mask, last, actions, xdotool, trail>>
varsJoy == <<pc, err, hsByte, hsReads, sent, reads, got, stream, pos, config_file, disk,
             loadCalled, calEntered, count, i, varsProfile>>

NoLast == [op |-> "none", xPos |-> R(0), yPos |-> R(0), btnMask |-> 0, oldMask |-> 0]
NoCalc == [travel |-> None, dead |-> None, val1 |-> R(0), val2 |-> R(0),
           out1 |-> None, out2 |-> None, done |-> FALSE]

\* JoyMouse.__init__ has not yet come back from Joy.__init__: mode is not set
InInit == mode = -1

\* an exception leaves the running operation; one raised in __init__ leaves
\* no object behind
Raise(e) ==
    /\ pc' = IF InInit THEN "failed" ELSE "ready"
    /\ err' = e
    /\ count' = 0 /\ i' = 0

Return ==
    /\ pc' = IF InInit THEN "constructed" ELSE "ready"
    /\ err' = "none"
    /\ count' = 0 /\ i' = 0

\* lines 102-105: calibrate up to its first read
EnterCalibrate(n) ==
    /\ pc' = "calSeed" /\ err' = "none"
    /\ count' = n /\ i' = 0
    /\ calEntered' = TRUE
    /\ center' = <<R(0), R(0)>>

\* mutant: the marker is read and not compared
Handshake_unchecked ==
    /\ pc = "new"
    /\ \E b \in HandshakeBytes :
          /\ hsByte' = b /\ hsReads' = hsReads + 1
          /\ pc' = "load" /\ err' = "none"
    /\ UNCHANGED <<sent, reads, got, stream, pos, config_file, disk, loadCalled, calEntered,
                   count, i, varsProfile, varsMouse, calc>>

\* lines 49-56: the handshake read of __init__
Handshake ==
    /\ pc = "new"
    /\ \E b \in HandshakeBytes :
          /\ hsByte' = b /\ hsReads' = hsReads + 1
          /\ IF b # PROTOCOL_VERSION
             THEN pc' = "failed" /\ err' = "RuntimeError"
             ELSE pc' = "load" /\ err' = "none"
    /\ UNCHANGED <<sent, reads, got, stream, pos, config_file, disk, loadCalled, calEntered,
                   count, i, varsProfile, varsMouse, calc>>

\* lines 58-63: load_config, and on FileNotFoundError or ValueError the
\* start of calibrate()
LoadConfig ==
    /\ pc = "load"
    /\ loadCalled' = TRUE
    /\ LET r == load_config(config_file, disk, center,
                            <<center_x_interval, center_y_interval, x_interval, y_interval>>)
       IN  /\ center_x_interval' = r.ivs[1] /\ center_y_interval' = r.ivs[2]
           /\ x_interval' = r.ivs[3] /\ y_interval' = r.ivs[4]
           /\ IF r.res = "ok"
              THEN /\ center' = r.center
                   /\ Return
                   /\ UNCHANGED calEntered
              ELSE IF r.res \in {"FileNotFoundError", "ValueError"}
              THEN EnterCalibrate(DefaultCount)
              ELSE /\ center' = r.center
                   /\ Raise(r.res)
                   /\ UNCHANGED calEntered
    /\ UNCHANGED <<hsByte, hsReads, sent, reads, got, stream, pos, config_file,
                   disk, varsMouse, calc>>

\* calibrate(count) called on a constructed object
CallCalibrate(n) ==
    /\ pc = "ready"
    /\ EnterCalibrate(n)
    /\ sent' = 0 /\ reads' = 0 /\ got' = -1
    /\ UNCHANGED <<hsByte, hsReads, stream, pos, config_file, disk, loadCalled,
                   center_x_interval, center_y_interval, x_interval, y_interval,
                   varsMouse, calc>>

\* mutant: a short reply is decoded with its missing bytes taken as zero
Unpack_zero_filled(n, sample) ==
    Ok(IF n = FmtSize THEN sample ELSE <<0, 0, 0>>)

\* line 166, struct.unpack(_FMT, raw) on n bytes: the sample <<xV, yV,
\* btn_mask>> they encode when there are calcsize(_FMT) of them, and
\* struct.error otherwise
Unpack(n, sample) ==
    IF n = FmtSize THEN Ok(sample) ELSE StructError

\* mutant: the request is written twice before the reply is read
Requested_doubled(start) ==
    /\ sent' = (IF start THEN 0 ELSE sent) + 2
    /\ reads' = (IF start THEN 0 ELSE reads) + 1
    /\ \E n \in ReplyLens : got' = n
    /\ pos' = IF got' = FmtSize THEN 3 - pos ELSE pos
    /\ UNCHANGED <<hsByte, hsReads, stream>>

\* lines 161-164: the request is written and flushed and the reply read, as
\* the first of an operation (start) or a further one; the device goes on to
\* its next position once a full reply has left it
Reply == stream[pos]
Requested(start) ==
    /\ sent' = (IF start THEN 0 ELSE sent) + 1
    /\ reads' = (IF start THEN 0 ELSE reads) + 1
    /\ \E n \in ReplyLens : got' = n
    /\ pos' = IF got' = FmtSize THEN 3 - pos ELSE pos
    /\ UNCHANGED <<hsByte, hsReads, stream>>

\* what _get_raw_data returns or raises, btn the button mask the device sent
Data(btn) == Unpack(got', <<Reply[1], Reply[2], btn>>)

\* calibrate takes xV and yV and drops the rest of the sample
CalData == Data(0)

\* line 106-110: the seed sample; with count = 0 both loops are empty and
\* line 126 divides by zero
CalSeed ==
    /\ pc = "calSeed"
    /\ Requested(FALSE)
    /\ CalData.ok
    /\ center_x_interval' = Interval(R(CalData.v[1]), R(CalData.v[1]))
    /\ center_y_interval' = Interval(R(CalData.v[2]), R(CalData.v[2]))
    /\ x_interval' = Interval(R(CalData.v[1]), R(CalData.v[1]))
    /\ y_interval' = Interval(R(CalData.v[2]), R(CalData.v[2]))
    /\ IF count = 0
       THEN Raise("ZeroDivisionError")
       ELSE pc' = "calCenter" /\ i' = 0 /\ UNCHANGED <<err, count>>
    /\ UNCHANGED <<config_file, disk, loadCalled, calEntered, center, varsMouse, calc>>

\* lines 115-132: one pass of the centering loop, and after the last one the
\* conversion of the center and of the center intervals
CalCenter ==
    /\ pc = "calCenter"
    /\ Requested(FALSE)
    /\ CalData.ok
    /\ LET c == <<RAdd(center[1], R(CalData.v[1])), RAdd(center[2], R(CalData.v[2]))>>
           cxi == extend(center_x_interval, R(CalData.v[1]))
           cyi == extend(center_y_interval, R(CalData.v[2]))
       IN  IF count \div PercentSteps = 0
           THEN /\ center' = c
                /\ center_x_interval' = cxi /\ center_y_interval' = cyi
                /\ Raise("ZeroDivisionError")
           ELSE IF i + 1 < count
           THEN /\ center' = c
                /\ center_x_interval' = cxi /\ center_y_interval' = cyi
                /\ i' = i + 1
                /\ UNCHANGED <<pc, err, count>>
           ELSE /\ center' = <<getRbyADC(PyDiv(c[1], R(count)).v),
                               getRbyADC(PyDiv(c[2], R(count)).v)>>
                /\ center_x_interval' = adc2r(cxi) /\ center_y_interval' = adc2r(cyi)
                /\ pc' = "calTravel" /\ i' = 0
                /\ UNCHANGED <<err, count>>
    /\ UNCHANGED <<config_file, disk, loadCalled, calEntered, x_interval, y_interval,
                   varsMouse, calc>>

\* mutant: the profile is written before the travel intervals are converted
CalTravel_savesRaw ==
    /\ pc = "calTravel"
    /\ Requested(FALSE)
    /\ CalData.ok
    /\ LET xi == extend(x_interval, R(CalData.v[1]))
           yi == extend(y_interval, R(CalData.v[2]))
       IN  IF count \div PercentSteps = 0
           THEN /\ x_interval' = xi /\ y_interval' = yi
                /\ Raise("ZeroDivisionError")
                /\ UNCHANGED disk
           ELSE IF i + 1 < count
           THEN /\ x_interval' = xi /\ y_interval' = yi
                /\ i' = i + 1
                /\ UNCHANGED <<pc, err, count, disk>>
           ELSE /\ x_interval' = adc2r(xi) /\ y_interval' = adc2r(yi)
                /\ disk' = save_config(config_file, disk, center, center_x_interval,
                                       center_y_interval, xi, yi)
                /\ Return
    /\ UNCHANGED <<config_file, loadCalled, calEntered, center, center_x_interval,
                   center_y_interval, varsMouse, calc>>

\* lines 142-158: one pass of the travel loop, and after the last one the
\* conversion of the travel intervals and save_config
CalTravel ==
    /\ pc = "calTravel"
    /\ Requested(FALSE)
    /\ CalData.ok
    /\ LET xi == extend(x_interval, R(CalData.v[1]))
           yi == extend(y_interval, R(CalData.v[2]))
       IN  IF count \div PercentSteps = 0
           THEN /\ x_interval' = xi /\ y_interval' = yi
                /\ Raise("ZeroDivisionError")
                /\ UNCHANGED disk
           ELSE IF i + 1 < count
           THEN /\ x_interval' = xi /\ y_interval' = yi
                /\ i' = i + 1
                /\ UNCHANGED <<pc, err, count, disk>>
           ELSE /\ x_interval' = adc2r(xi) /\ y_interval' = adc2r(yi)
                /\ disk' = save_config(config_file, disk, center, center_x_interval,
                                       center_y_interval, adc2r(xi), adc2r(yi))
                /\ Return
    /\ UNCHANGED <<config_file, loadCalled, calEntered, center, center_x_interval,
                   center_y_interval, varsMouse, calc>>

\* mutant: the abort writes the profile built so far
CalShortReply_saving ==
    /\ pc \in {"calSeed", "calCenter", "calTravel"}
    /\ Requested(FALSE)
    /\ ~CalData.ok
    /\ Raise(CalData.v)
    /\ disk' = save_config(config_file, disk, center, center_x_interval,
                           center_y_interval, x_interval, y_interval)
    /\ UNCHANGED <<config_file, loadCalled, calEntered, varsProfile, varsMouse, calc>>

\* _get_raw_data in calibrate with a reply shorter than the 7 bytes of _FMT:
\* the exception of struct.unpack leaves calibrate
CalShortReply ==
    /\ pc \in {"calSeed", "calCenter", "calTravel"}
    /\ Requested(FALSE)
    /\ ~CalData.ok
    /\ Raise(CalData.v)
    /\ UNCHANGED <<config_file, disk, loadCalled, calEntered, varsProfile,
                   varsMouse, calc>>

\* lines 192-194: the rest of JoyMouse.__init__
MouseInit ==
    /\ pc = "constructed"
    /\ \E m \in {RELATIVE_MODE, ABSOLUTE_MODE} : mode' = m
    /\ old_btn_mask' = 0
    /\ pc' = "ready"
    /\ UNCHANGED <<err, hsByte, hsReads, sent, reads, got, stream, pos, config_file, disk,
                   loadCalled, calEntered, count, i, varsProfile, last, actions,
                   xdotool, trail, calc>>

\* lines 172-175 of get_data on the axis readings xV, yV: the two positions,
\* or the exception of the first calc_f that raises (AttributeError when the
\* intervals are still None)
Positions(xV, yV) ==
    IF x_interval = None \/ center_x_interval = None
    THEN [ok |-> FALSE, v |-> "AttributeError"]
    ELSE LET xPos == calc_f(x_interval, center_x_interval, getRbyADC(R(xV)))
         IN  IF ~xPos.ok THEN xPos
             ELSE IF y_interval = None \/ center_y_interval = None
             THEN [ok |-> FALSE, v |-> "AttributeError"]
             ELSE LET yPos == calc_f(y_interval, center_y_interval, getRbyADC(R(yV)))
                  IN  IF ~yPos.ok THEN yPos
                      ELSE Ok(<<xPos.v, yPos.v>>)

\* mutant: get_data takes the sample it read as the new center
GetData_recentering ==
    /\ pc = "ready"
    /\ Requested(TRUE)
    /\ \E btn \in StepMasks :
          LET d == Data(btn)
              p == Positions(d.v[1], d.v[2])
          IN  IF ~d.ok
              THEN /\ err' = d.v
                   /\ last' = [NoLast EXCEPT !.op = "get_data"]
                   /\ UNCHANGED center
              ELSE IF ~p.ok
              THEN /\ err' = p.v
                   /\ last' = [NoLast EXCEPT !.op = "get_data"]
                   /\ UNCHANGED center
              ELSE /\ err' = "none"
                   /\ last' = [op |-> "get_data", xPos |-> p.v[1], yPos |-> p.v[2],
                               btnMask |-> d.v[3], oldMask |-> old_btn_mask]
                   /\ center' = <<getRbyADC(R(d.v[1])), getRbyADC(R(d.v[2]))>>
    /\ actions' = <<>> /\ xdotool' = <<>>
    /\ UNCHANGED <<pc, config_file, disk, loadCalled, calEntered, count, i,
                   center_x_interval, center_y_interval, x_interval, y_interval,
                   mode, old_btn_mask, trail, calc>>

\* get_data called on a constructed object
GetData ==
    /\ pc = "ready"
    /\ Requested(TRUE)
    /\ \E btn \in StepMasks :
          LET d == Data(btn)
              p == Positions(d.v[1], d.v[2])
          IN  IF ~d.ok
              THEN /\ err' = d.v
                   /\ last' = [NoLast EXCEPT !.op = "get_data"]
              ELSE IF ~p.ok
              THEN /\ err' = p.v
                   /\ last' = [NoLast EXCEPT !.op = "get_data"]
              ELSE /\ err' = "none"
                   /\ last' = [op |-> "get_data", xPos |-> p.v[1], yPos |-> p.v[2],
                               btnMask |-> d.v[3], oldMask |-> old_btn_mask]
    /\ actions' = <<>> /\ xdotool' = <<>>
    /\ UNCHANGED <<pc, config_file, disk, loadCalled, calEntered, count, i,
                   varsProfile, mode, old_btn_mask, trail, calc>>

\* mutant: xdotool is called with whatever list was built
step_unguarded ==
    /\ pc = "ready"
    /\ Requested(TRUE)
    /\ \E btn \in StepMasks :
          LET d == Data(btn)
              p == Positions(d.v[1], d.v[2])
              acts == _mouse(mode, p.v[1], p.v[2]) \o _keys(old_btn_mask, d.v[3])
          IN  IF ~d.ok
              THEN /\ err' = d.v
                   /\ last' = [NoLast EXCEPT !.op = "step"]
                   /\ actions' = <<>> /\ xdotool' = <<>>
                   /\ UNCHANGED <<old_btn_mask, trail>>
              ELSE IF ~p.ok
              THEN /\ err' = p.v
                   /\ last' = [NoLast EXCEPT !.op = "step"]
                   /\ actions' = <<>> /\ xdotool' = <<>>
                   /\ UNCHANGED <<old_btn_mask, trail>>
              ELSE /\ err' = "none"
                   /\ last' = [op |-> "step", xPos |-> p.v[1], yPos |-> p.v[2],
                               btnMask |-> d.v[3], oldMask |-> old_btn_mask]
                   /\ old_btn_mask' = d.v[3]
                   /\ trail' = Observe(trail, _keys(old_btn_mask, d.v[3]))
                   /\ actions' = acts
                   /\ xdotool' = <<"xdotool">> \o acts
    /\ UNCHANGED <<pc, config_file, disk, loadCalled, calEntered, count, i,
                   varsProfile, mode, calc>>

\* step: get_data, _mouse, _keys and the call of xdotool
step ==
    /\ pc = "ready"
    /\ Requested(TRUE)
    /\ \E btn \in StepMasks :
          LET d == Data(btn)
              p == Positions(d.v[1], d.v[2])
              acts == _mouse(mode, p.v[1], p.v[2]) \o _keys(old_btn_mask, d.v[3])
          IN  IF ~d.ok
              THEN /\ err' = d.v
                   /\ last' = [NoLast EXCEPT !.op = "step"]
                   /\ actions' = <<>> /\ xdotool' = <<>>
                   /\ UNCHANGED <<old_btn_mask, trail>>
              ELSE IF ~p.ok
              THEN /\ err' = p.v
                   /\ last' = [NoLast EXCEPT !.op = "step"]
                   /\ actions' = <<>> /\ xdotool' = <<>>
                   /\ UNCHANGED <<old_btn_mask, trail>>
              ELSE /\ err' = "none"
                   /\ last' = [op |-> "step", xPos |-> p.v[1], yPos |-> p.v[2],
                               btnMask |-> d.v[3], oldMask |-> old_btn_mask]
                   /\ old_btn_mask' = d.v[3]
                   /\ trail' = Observe(trail, _keys(old_btn_mask, d.v[3]))
                   /\ actions' = acts
                   /\ xdotool' = IF acts # <<>> THEN <<"xdotool">> \o acts ELSE <<>>
    /\ UNCHANGED <<pc, config_file, disk, loadCalled, calEntered, count, i,
                   varsProfile, mode, calc>>

\* _mouse(xPos, yPos) called on a constructed object
CallMouse(xPos, yPos) ==
    /\ pc = "ready"
    /\ last' = [NoLast EXCEPT !.op = "_mouse", !.xPos = xPos, !.yPos = yPos]
    /\ actions' = _mouse(mode, xPos, yPos)
    /\ UNCHANGED <<varsJoy, mode, old_btn_mask, xdotool, trail, calc>>

\* mutant: only the bits of the table are stored
CallKeys_tableBits(btnMask) ==
    /\ pc = "ready"
    /\ last' = [NoLast EXCEPT !.op = "_keys", !.btnMask = btnMask, !.oldMask = old_btn_mask]
    /\ actions' = _keys(old_btn_mask, btnMask)
    /\ trail' = Observe(trail, _keys(old_btn_mask, btnMask))
    /\ old_btn_mask' = btnMask - 16 * Bit(btnMask, 4) - 128 * Bit(btnMask, 7)
    /\ UNCHANGED <<varsJoy, mode, xdotool, calc>>

\* _keys(btnMask) called on a constructed object
CallKeys(btnMask) ==
    /\ pc = "ready"
    /\ last' = [NoLast EXCEPT !.op = "_keys", !.btnMask = btnMask, !.oldMask = old_btn_mask]
    /\ actions' = _keys(old_btn_mask, btnMask)
    /\ trail' = Observe(trail, _keys(old_btn_mask, btnMask))
    /\ old_btn_mask' = btnMask
    /\ UNCHANGED <<varsJoy, mode, xdotool, calc>>

(***************************************************************************)
(* Spec: a JoyMouse is constructed on a link and then driven by get_data   *)
(* and step.                                                               *)
(***************************************************************************)
NoMouse ==
    /\ mode = -1 /\ old_btn_mask = 0 /\ last = NoLast
    /\ actions = <<>> /\ xdotool = <<>> /\ trail = NoTrail

NoProfile ==
    /\ center = <<>>
    /\ center_x_interval = None /\ center_y_interval = None
    /\ x_interval = None /\ y_interval = None

Init ==
    /\ pc = "new" /\ err = "none"
    /\ hsByte = 0 /\ hsReads = 0 /\ sent = 0 /\ reads = 0 /\ got = -1 /\ pos = 1
    /\ loadCalled = FALSE /\ calEntered = FALSE
    /\ NoProfile
    /\ count = 0 /\ i = 0
    /\ NoMouse
    /\ calc = NoCalc
    /\ \/ config_file = "None" /\ disk = Absent /\ stream \in Streams
       \/ config_file = "joy.cfg" /\ disk \in {Absent, GoodFile} /\ stream \in Streams
       \/ config_file = "joy.cfg" /\ disk \in MalformedFiles /\ stream = BaseStream

Next ==
    \/ Handshake
    \/ LoadConfig
    \/ CalSeed
    \/ CalCenter
    \/ CalTravel
    \/ CalShortReply
    \/ MouseInit
    \/ GetData
    \/ step

Spec == Init /\ [][Next]_vars

(***************************************************************************)
(* The state of a JoyMouse right after its construction with a config file *)
(* that loads (or with none), as the specifications below start from it.   *)
(***************************************************************************)
Constructed(cf, f, st, m) ==
    LET r == load_config(cf, f, <<>>, <<None, None, None, None>>)
    IN  /\ pc = "ready" /\ err = "none"
        /\ hsByte = PROTOCOL_VERSION /\ hsReads = 1 /\ sent = 0 /\ reads = 0 /\ got = -1
        /\ stream = st /\ pos = 1
        /\ config_file = cf /\ disk = f
        /\ loadCalled = TRUE /\ calEntered = FALSE
        /\ center = r.center
        /\ center_x_interval = r.ivs[1] /\ center_y_interval = r.ivs[2]
        /\ x_interval = r.ivs[3] /\ y_interval = r.ivs[4]
        /\ count = 0 /\ i = 0
        /\ mode = m /\ old_btn_mask = 0 /\ last = NoLast
        /\ actions = <<>> /\ xdotool = <<>> /\ trail = NoTrail
        /\ calc = NoCalc

(***************************************************************************)
(* SpecCal: calibrate(count) called on a constructed object.               *)
(***************************************************************************)
Counts == 0..PercentSteps

InitCal ==
    \E st \in Streams :
        \/ Constructed("None", Absent, st, RELATIVE_MODE)
        \/ Constructed("joy.cfg", GoodFile, st, RELATIVE_MODE)

NextCal ==
    \/ \E n \in Counts : CallCalibrate(n)
    \/ CalSeed
    \/ CalCenter
    \/ CalTravel
    \/ CalShortReply

SpecCal == InitCal /\ [][NextCal]_vars

(***************************************************************************)
(* SpecRun: calibrate(count) called, any number of times, with a count     *)
(* that lets it run to its end (count // 100 is not zero).                 *)
(***************************************************************************)
RunCounts == {PercentSteps, PercentSteps + 1}

InitRun ==
    \E st \in Streams :
        \/ Constructed("None", Absent, st, RELATIVE_MODE)
        \/ Constructed("joy.cfg", GoodFile, st, RELATIVE_MODE)

NextRun ==
    \/ \E n \in RunCounts : CallCalibrate(n)
    \/ CalSeed
    \/ CalCenter
    \/ CalTravel
    \/ CalShortReply

SpecRun == InitRun /\ [][NextRun]_vars

(***************************************************************************)
(* SpecKeys: _keys called with any sequence of button masks.               *)
(***************************************************************************)
InitKeys == Constructed("None", Absent, BaseStream, RELATIVE_MODE)

NextKeys == \E btnMask \in KeyMasks : CallKeys(btnMask)

SpecKeys == InitKeys /\ [][NextKeys]_vars

(***************************************************************************)
(* SpecMouse: _mouse called with any positions of [-1, 1] in either mode.  *)
(***************************************************************************)
MousePositions ==
    {q \in {Rat(k, d) : k \in -MaxDen..MaxDen, d \in 1..MaxDen} :
        RLe(R(-1), q) /\ RLe(q, R(1))}

InitMouse ==
    \E m \in {RELATIVE_MODE, ABSOLUTE_MODE} : Constructed("None", Absent, BaseStream, m)

NextMouse == \E xPos, yPos \in MousePositions : CallMouse(xPos, yPos)

SpecMouse == InitMouse /\ [][NextMouse]_vars

(***************************************************************************)
(* SpecCalc: calc_f applied to two values v1 <= v2 under the same pair of  *)
(* intervals (each with left <= right, in any position to one another).    *)
(***************************************************************************)
CalcBounds == {R(k) : k \in 0..MaxNum}
CalcIntervals ==
    {I \in {Interval(l, r) : l \in CalcBounds, r \in CalcBounds} : RLe(I.left, I.right)}
CalcValues == {Rat(k, 2) : k \in -2..(2 * MaxNum + 2)}

InitCalc ==
    /\ pc = "none" /\ err = "none"
    /\ hsByte = 0 /\ hsReads = 0 /\ sent = 0 /\ reads = 0 /\ got = -1 /\ pos = 1
    /\ stream = BaseStream /\ config_file = "None" /\ disk = Absent
    /\ loadCalled = FALSE /\ calEntered = FALSE
    /\ NoProfile
    /\ count = 0 /\ i = 0
    /\ NoMouse
    /\ \E t, d \in CalcIntervals : \E v1, v2 \in CalcValues :
          /\ RLe(v1, v2)
          /\ calc = [travel |-> t, dead |-> d, val1 |-> v1, val2 |-> v2,
                     out1 |-> None, out2 |-> None, done |-> FALSE]

ApplyCalc ==
    /\ ~calc.done
    /\ calc' = [calc EXCEPT !.out1 = calc_f(calc.travel, calc.dead, calc.val1),
                            !.out2 = calc_f(calc.travel, calc.dead, calc.val2),
                            !.done = TRUE]
    /\ UNCHANGED <<varsJoy, varsMouse>>

NextCalc == ApplyCalc

SpecCalc == InitCalc /\ [][NextCalc]_vars

(***************************************************************************)
(* The claims                                                              *)
(***************************************************************************)
\* the action pair at positions 2n-1, 2n of the list
Emitted(acts, cmd, sym) ==
    \E n \in 1..(Len(acts) \div 2) : acts[2 * n - 1] = cmd /\ acts[2 * n] = sym

PressOf(e) == IF e.tp = "key" THEN "keydown" ELSE "mousedown"
ReleaseOf(e) == IF e.tp = "key" THEN "keyup" ELSE "mouseup"
TableBits == {0, 1, 2, 3, 5, 6}

\* C1: after _keys(btnMask), for every bit of the table {0,1,2,3,5,6} the
\* press action of its symbol is in the list exactly when the bit went 0 -> 1,
\* the release action exactly when it went 1 -> 0, and the list holds nothing
\* else: one action per changed table bit, none for bits 4 and 7.
C1_EdgeDetection ==
    last.op = "_keys" =>
        /\ {_BTN_ASSOC[n].k : n \in 1..Len(_BTN_ASSOC)} = TableBits
        /\ \A n \in 1..Len(_BTN_ASSOC) :
              LET e == _BTN_ASSOC[n]
                  was == (last.oldMask \div 2 ^ e.k) % 2
                  is == (last.btnMask \div 2 ^ e.k) % 2
              IN  /\ Emitted(actions, PressOf(e), e.val) <=> (was = 0 /\ is = 1)
                  /\ Emitted(actions, ReleaseOf(e), e.val) <=> (was = 1 /\ is = 0)
        /\ Len(actions) =
              2 * Cardinality({b \in TableBits :
                     (last.oldMask \div 2 ^ b) % 2 # (last.btnMask \div 2 ^ b) % 2})

\* mouse button 1 (bit 6) released while the unmapped bit 4 goes up: the one
\* action is that release
C1_Witness ==
    /\ last.op = "_keys"
    /\ last.oldMask = 64 /\ last.btnMask = 16
    /\ actions = <<"mouseup", "1">>

\* C2: a handshake byte other than the protocol-version marker makes the
\* construction fail with the protocol error, and in that run no read-sample
\* request is written, neither load_config nor calibrate is entered, no
\* calibration quantity is set and the handshake is read once only.
C2_HandshakeMismatchFatal ==
    (hsReads > 0 /\ hsByte # PROTOCOL_VERSION)
        => /\ pc = "failed" /\ err = "RuntimeError"
           /\ sent = 0
           /\ ~loadCalled /\ ~calEntered
           /\ NoProfile
           /\ hsReads = 1

C2_Witness ==
    /\ hsReads = 1 /\ hsByte = 66
    /\ pc = "failed" /\ err = "RuntimeError"

\* the file content C3 speaks of: a token that is no number or an empty
\* line anywhere, or an interval line without exactly two numbers
Malformed(f) ==
    \E k \in 1..ConfigLines :
        \/ \E j \in 1..Len(f[k]) : ~f[k][j].num
        \/ k >= 2 /\ Len(f[k]) # 2

\* C3: with a config file path whose file is absent or malformed, __init__
\* does not fail in load_config: once load_config has been called, calibrate
\* has been entered.
C3_ConfigFallback ==
    (loadCalled /\ config_file # "None" /\ (disk = Absent \/ Malformed(disk)))
        => (calEntered /\ err # "TypeError")

\* C4: calibrate(N) with 1 <= N < 100 never ends in a division (or
\* remainder) by zero.
C4_SmallCountNoZeroDivision ==
    [][(count >= 1 /\ count < PercentSteps) => err' # "ZeroDivisionError"]_vars

Nested(t, d) == RLe(t.left, d.left) /\ RLe(d.right, t.right)
Degenerate(t, d) == t.left = d.left \/ d.right = t.right

C6_PositionRange ==
    (calc.done /\ calc.out1.ok)
        => (RLe(R(-1), calc.out1.v) /\ RLe(calc.out1.v, R(1)))

\* a point strictly inside the right ramp of intervals that are not nested
C6_Witness ==
    /\ calc.done /\ calc.out1.ok
    /\ ~Nested(calc.travel, calc.dead)
    /\ RLt(R(0), calc.out1.v) /\ RLt(calc.out1.v, R(1))

\* C7 as stated: -1 for value <= travel.left, 1 for value >= travel.right,
\* 0 for deadzone.left <= value < deadzone.right, for all intervals.
C7_FixedRegions ==
    calc.done =>
        /\ RLe(calc.val1, calc.travel.left) => calc.out1 = Ok(R(-1))
        /\ RLe(calc.travel.right, calc.val1) => calc.out1 = Ok(R(1))
        /\ (RLe(calc.dead.left, calc.val1) /\ RLt(calc.val1, calc.dead.right))
              => calc.out1 = Ok(R(0))

\* C7 amended: for a dead zone nested in the travel interval (travel.left <=
\* deadzone.left and deadzone.right <= travel.right), calc_f is exactly -1
\* for value < travel.left and for value = travel.left < deadzone.left,
\* exactly 1 for value >= travel.right, and exactly 0 for
\* deadzone.left <= value < deadzone.right.
C7_FixedRegionsNested ==
    (calc.done /\ Nested(calc.travel, calc.dead)) =>
        /\ (\/ RLt(calc.val1, calc.travel.left)
            \/ (calc.val1 = calc.travel.left /\ RLt(calc.travel.left, calc.dead.left)))
              => calc.out1 = Ok(R(-1))
        /\ RLe(calc.travel.right, calc.val1) => calc.out1 = Ok(R(1))
        /\ (RLe(calc.dead.left, calc.val1) /\ RLt(calc.val1, calc.dead.right))
              => calc.out1 = Ok(R(0))

\* the value on travel.left, below the dead zone: the left ramp gives -1
C7_Witness ==
    /\ calc.done /\ Nested(calc.travel, calc.dead)
    /\ calc.val1 = calc.travel.left
    /\ RLt(calc.travel.left, calc.dead.left)
    /\ calc.out1 = Ok(R(-1))

\* C8: for fixed intervals and v1 <= v2, calc_f(v1) <= calc_f(v2).
C8_Monotone ==
    calc.done =>
        /\ calc.out1.ok /\ calc.out2.ok
        /\ RLe(calc.out1.v, calc.out2.v)

\* two values on the two ramps, with strictly increasing results
C8_Witness ==
    /\ calc.done /\ calc.out1.ok /\ calc.out2.ok
    /\ RLt(calc.val1, calc.val2)
    /\ RLt(R(-1), calc.out1.v) /\ RLt(calc.out1.v, R(0))
    /\ RLt(R(0), calc.out2.v) /\ RLt(calc.out2.v, R(1))

\* int(p) = 0 for a position p of [-1, 1] exactly when -1 < p < 1
TruncZero(p) == RLt(R(-1), p) /\ RLt(p, R(1))

\* C9: in ABSOLUTE_MODE, when the truncated positions are not both zero,
\* _mouse returns an absolute move: a list of the command token "mousemove"
\* and the two integer parameters.
C9_AbsoluteMove ==
    (last.op = "_mouse" /\ mode = ABSOLUTE_MODE
        /\ ~(TruncZero(last.xPos) /\ TruncZero(last.yPos)))
        => /\ Len(actions) = 4
           /\ actions[1] = "mousemove"

\* trunc((10 p)^3), from the definition of truncation toward zero
TruncCube(p) ==
    LET num == 1000 * p[1] * p[1] * p[1]
        den == p[2] * p[2] * p[2]
    IN  CHOOSE z \in -1000..1000 :
            IF num >= 0
            THEN z >= 0 /\ z * den <= num /\ num < (z + 1) * den
            ELSE z <= 0 /\ z * den >= num /\ num > (z - 1) * den

\* C10: in RELATIVE_MODE, with px = trunc((10 x)^3) and py = trunc((10 y)^3),
\* _mouse returns ["mousemove_relative", "--", px, py] when px or py is not
\* zero and the empty list when both are.
C10_RelativeMove ==
    (last.op = "_mouse" /\ mode = RELATIVE_MODE) =>
        LET px == TruncCube(last.xPos)
            py == TruncCube(last.yPos)
        IN  actions = IF px # 0 \/ py # 0
                      THEN <<"mousemove_relative", "--", ToString(px), ToString(py)>>
                      ELSE <<>>

\* the position (0.5, 0) gives the parameters (125, 0)
C10_Witness ==
    /\ last.op = "_mouse" /\ mode = RELATIVE_MODE
    /\ last.xPos = Rat(1, 2) /\ last.yPos = R(0)
    /\ actions = <<"mousemove_relative", "--", "125", "0">>

CalPhases == {"calSeed", "calCenter", "calTravel"}

\* C11: a sample read that fails in calibrate (seed, centering or travel
\* phase) ends calibrate with that error, and the calibration file is then as
\* it was when calibrate started: the failing step does not write it, and no
\* step of a running calibrate writes it but the one that returns normally.
C11_AbortKeepsFile ==
    [][/\ (pc \in CalPhases /\ err' = "struct.error")
             => (pc' \notin CalPhases /\ disk' = disk)
       /\ (disk' # disk)
             => (pc = "calTravel" /\ pc' \notin CalPhases /\ err' = "none")]_vars

\* calibrate aborted in its travel phase: the travel interval holds raw
\* samples, the file still the profile it held before
C11_Witness ==
    /\ err = "struct.error" /\ pc = "ready" /\ calEntered
    /\ disk = GoodFile
    /\ x_interval = Interval(R(0), R(1))
    /\ center_x_interval # Interval(R(1022), R(1022))

\* C12: after every call _keys(btnMask) the stored previous mask is btnMask,
\* bit for bit over all 8 bits (bits 4 and 7 included), whether the call
\* emitted an action or not.
C12_PreviousMaskUpdate ==
    last.op = "_keys" =>
        /\ old_btn_mask = last.btnMask
        /\ \A b \in 0..7 : Bit(old_btn_mask, b) = Bit(last.btnMask, b)

\* only the unmapped bits 4 and 7 went up: no action, the mask is stored
C12_Witness ==
    /\ last.op = "_keys"
    /\ last.oldMask = 0 /\ last.btnMask = 144
    /\ actions = <<>>
    /\ old_btn_mask = 144

\* int((10 p)^3) = 0 exactly when |10 p|^3 < 1
CubeZero(p) == 1000 * Abs(p[1] * p[1] * p[1]) < p[2] * p[2] * p[2]

\* the movement list of a step is empty; its button-edge list is empty
MoveEmpty(m, x, y) ==
    IF m = RELATIVE_MODE THEN CubeZero(x) /\ CubeZero(y)
    ELSE TruncZero(x) /\ TruncZero(y)
KeysEmpty(old, new) ==
    \A b \in TableBits : (old \div 2 ^ b) % 2 = (new \div 2 ^ b) % 2

\* C13: in every step xdotool is called exactly when the combined action
\* list is not empty, and then with that list; a step whose movement list
\* and button-edge list are both empty does not call it.
C13_DispatchGuard ==
    last.op = "step" =>
        /\ (xdotool # <<>>) <=> (actions # <<>>)
        /\ (xdotool # <<>>) => xdotool = <<"xdotool">> \o actions
        /\ err = "none" =>
              ((MoveEmpty(mode, last.xPos, last.yPos)
                  /\ KeysEmpty(last.oldMask, last.btnMask))
               <=> xdotool = <<>>)

\* a step at rest in which only the unmapped bits 4 and 7 went up: both
\* lists are empty and xdotool is not called
C13_Witness ==
    /\ last.op = "step" /\ err = "none"
    /\ last.oldMask = 0 /\ last.btnMask = 144
    /\ MoveEmpty(mode, last.xPos, last.yPos)
    /\ actions = <<>> /\ xdotool = <<>>

\* the place in the table of the entry with symbol sym
TableIndex(sym) == CHOOSE n \in 1..Len(_BTN_ASSOC) : _BTN_ASSOC[n].val = sym

\* C14: the action list built by step is the mouse-move action (four
\* entries, "--" the second), when there is one, followed by the button
\* actions, which come in the order of the table, bits 0, 1, 2, 3, 5, 6,
\* whichever bits changed.
C14_OutputOrdering ==
    (last.op = "step" /\ err = "none") =>
        LET mv == IF MoveEmpty(mode, last.xPos, last.yPos) THEN 0 ELSE 4
            nk == (Len(actions) - mv) \div 2
            Cmd(n) == actions[mv + 2 * n - 1]
            Sym(n) == actions[mv + 2 * n]
        IN  /\ [n \in 1..Len(_BTN_ASSOC) |-> _BTN_ASSOC[n].k] = <<0, 1, 2, 3, 5, 6>>
            /\ Len(actions) >= mv /\ Len(actions) = mv + 2 * nk
            /\ mv = 4 => actions[2] = "--"
            /\ \A n \in 1..nk :
                  /\ \E e \in {_BTN_ASSOC[j] : j \in 1..Len(_BTN_ASSOC)} :
                        e.val = Sym(n) /\ Cmd(n) \in {PressOf(e), ReleaseOf(e)}
                  /\ \A m \in 1..nk :
                        n < m => TableIndex(Sym(n)) < TableIndex(Sym(m))
            /\ nk = Cardinality({b \in TableBits :
                     (last.oldMask \div 2 ^ b) % 2 # (last.btnMask \div 2 ^ b) % 2})

\* a step that moves the pointer while bits 0 and 6 go up
C14_Witness ==
    /\ last.op = "step" /\ err = "none"
    /\ last.oldMask = 0 /\ last.btnMask = 65
    /\ Len(actions) = 8
    /\ actions[1] = "mousemove_relative" /\ actions[2] = "--"
    /\ SubSeq(actions, 5, 8) = <<"keydown", "Right", "mousedown", "1">>

\* C15: when the reply to a read-sample request has fewer than 7 bytes,
\* _get_raw_data raises: the caller (get_data, step or calibrate) ends with
\* that error, calibrate does not go on, and get_data and step produce no
\* position, no button mask, no action and no call of xdotool from the reply.
C15_ShortReplySurfaced ==
    (got >= 0 /\ got < FmtSize) =>
        /\ err = "struct.error"
        /\ pc \notin CalPhases
        /\ last.op \in {"get_data", "step"} =>
              /\ last = [NoLast EXCEPT !.op = last.op]
              /\ actions = <<>> /\ xdotool = <<>>

\* a step whose reply came one byte short, with a button held before it
C15_Witness ==
    /\ got = FmtSize - 1
    /\ last.op = "step" /\ err = "struct.error"
    /\ old_btn_mask = 64

\* C16: a get_data or step call on a constructed object leaves the center
\* and the four intervals as they are, whether it returns or raises.
C16_ProfileReadOnly ==
    [][(pc = "ready" /\ pc' = "ready")
          => /\ center' = center
             /\ center_x_interval' = center_x_interval
             /\ center_y_interval' = center_y_interval
             /\ x_interval' = x_interval
             /\ y_interval' = y_interval]_vars

\* a get_data that returned positions computed from a profile read from the
\* file
C16_Witness ==
    /\ last.op = "get_data" /\ err = "none"
    /\ ~calEntered
    /\ center = <<R(1022), R(1023)>>
    /\ x_interval = Interval(R(1020), R(1024))
    /\ last.xPos = Rat(1, 2)

\* an interval of raw readings; an interval, a coordinate after conversion
RawInterval(I) == RLe(R(0), I.left) /\ RLe(I.left, I.right) /\ RLe(I.right, R(MaxADC))
ConvertedValue(v) == RLe(getRbyADC(R(MaxADC)), v) /\ RLe(v, getRbyADC(R(0)))
ConvertedInterval(I) ==
    ConvertedValue(I.left) /\ ConvertedValue(I.right) /\ RLe(I.left, I.right)

\* C17: a calibrate(N) whose reads succeed goes through seed sample, N
\* centering samples, conversion of the center and the center intervals, N
\* travel samples, conversion of the travel intervals, save.  The seed leaves
\* the four intervals on one point and the sums at zero; a centering sample
\* leaves the travel intervals alone, a travel sample the center and the
\* center intervals; during centering all is raw and the travel intervals
\* are still the seed point; during travel the center and center intervals
\* are converted and the travel intervals raw; the file is written by the
\* step of the N-th travel sample only, with the converted profile.
C17_PhaseOrder ==
    [][/\ (pc = "calSeed" /\ pc' \in CalPhases)
             => /\ pc' = "calCenter" /\ i' = 0 /\ sent' = 1
                /\ center' = <<R(0), R(0)>>
                /\ center_x_interval'.left = center_x_interval'.right
                /\ center_y_interval'.left = center_y_interval'.right
                /\ x_interval' = center_x_interval'
                /\ y_interval' = center_y_interval'
       /\ pc = "calCenter"
             => /\ RawInterval(center_x_interval) /\ RawInterval(center_y_interval)
                /\ x_interval.left = x_interval.right /\ RawInterval(x_interval)
                /\ y_interval.left = y_interval.right /\ RawInterval(y_interval)
                /\ x_interval' = x_interval /\ y_interval' = y_interval
                /\ sent = 1 + i
                /\ pc' \in {"calCenter", "calTravel", "ready"}
       /\ (pc = "calCenter" /\ pc' = "calCenter") => (i' = i + 1 /\ i' < count)
       /\ (pc = "calCenter" /\ pc' = "calTravel") => (i = count - 1 /\ i' = 0)
       /\ pc = "calTravel"
             => /\ ConvertedValue(center[1]) /\ ConvertedValue(center[2])
                /\ ConvertedInterval(center_x_interval)
                /\ ConvertedInterval(center_y_interval)
                /\ RawInterval(x_interval) /\ RawInterval(y_interval)
                /\ center' = center
                /\ center_x_interval' = center_x_interval
                /\ center_y_interval' = center_y_interval
                /\ sent = 1 + count + i
                /\ pc' \in {"calTravel", "ready"}
       /\ (pc = "calTravel" /\ pc' = "calTravel") => (i' = i + 1 /\ i' < count)
       /\ (pc = "calTravel" /\ pc' = "ready" /\ err' = "none")
             => /\ i = count - 1
                /\ ConvertedInterval(x_interval') /\ ConvertedInterval(y_interval')
                /\ disk' = IF config_file = "None" THEN disk
                           ELSE << <<Num(center[1]), Num(center[2])>>,
                                   <<Num(center_x_interval.left), Num(center_x_interval.right)>>,
                                   <<Num(center_y_interval.left), Num(center_y_interval.right)>>,
                                   <<Num(x_interval'.left), Num(x_interval'.right)>>,
                                   <<Num(y_interval'.left), Num(y_interval'.right)>> >>
       /\ (disk' # disk)
             => (pc = "calTravel" /\ pc' = "ready" /\ err' = "none")]_vars

\* a calibrate(101) that ran to its end on a stick moving between 0 and 1:
\* the file holds the converted travel interval
C17_Witness ==
    /\ pc = "ready" /\ err = "none" /\ calEntered
    /\ sent = 2 * (PercentSteps + 1) + 1
    /\ config_file = "joy.cfg"
    /\ x_interval = Interval(getRbyADC(R(1)), getRbyADC(R(0)))
    /\ disk[4] = <<Num(getRbyADC(R(1))), Num(getRbyADC(R(0)))>>

\* C18: whenever __init__ has completed without raising, with a config
\* file or with config_file = None, the center and the four intervals are
\* set, and a get_data that follows does not fail for want of them.
C18_UsableAfterConstruction ==
    (pc \in {"constructed", "ready"})
        => /\ center # <<>>
           /\ center_x_interval # None /\ center_y_interval # None
           /\ x_interval # None /\ y_interval # None
           /\ err # "AttributeError"

\* C19: from the previous mask 0 on, over any sequence of _keys calls, the
\* actions emitted for each symbol of the table alternate press, release,
\* press, ..., the first being a press, and after every call the last action
\* emitted for a symbol is a press exactly when its bit is 1 in the mask of
\* that call (so nothing was emitted for a bit that has always been 0).
C19_PressReleaseAlternation ==
    /\ trail.alternating
    /\ \A n \in 1..Len(_BTN_ASSOC) :
          trail.pressed[_BTN_ASSOC[n].val]
              <=> ((old_btn_mask \div 2 ^ _BTN_ASSOC[n].k) % 2 = 1)

\* mouse button 1, pressed by the call before, goes up in the call in which
\* key Right goes down
C19_Witness ==
    /\ last.op = "_keys"
    /\ last.oldMask = 64 /\ last.btnMask = 1
    /\ actions = <<"keydown", "Right", "mouseup", "1">>
    /\ trail.alternating
    /\ trail.pressed["Right"] /\ ~trail.pressed["1"]

\* C20: every read-sample request is followed by one reply read (of up to
\* 7 bytes) before the next request is written; no request is written
\* unless the handshake byte has been read, once, and is the marker; a
\* calibrate(N) that returns has written exactly 2N + 1 requests, one at the
\* seed, N while centering and N while travelling; each get_data and each
\* step writes exactly one.
C20_RequestReplyDiscipline ==
    [][/\ reads' = sent'
       /\ (sent' # sent /\ sent' # 0)
             => /\ sent' = sent + 1 \/ (sent' = 1 /\ pc \notin CalPhases)
                /\ got' \in 0..FmtSize
                /\ hsReads = 1 /\ hsByte = PROTOCOL_VERSION
       /\ (pc = "calSeed" /\ pc' \in CalPhases) => sent' = 1
       /\ (pc = "calCenter" /\ pc' = "calTravel") => sent' = 1 + count
       /\ (pc = "calTravel" /\ pc' \notin CalPhases /\ err' = "none")
             => sent' = 2 * count + 1
       /\ (pc = "ready" /\ pc' = "ready") => (sent' = 1 /\ reads' = 1)]_vars

\* the calibrate() of a construction without a config file has returned
C20_Witness ==
    /\ pc = "constructed" /\ err = "none" /\ calEntered
    /\ sent = 2 * DefaultCount + 1 /\ reads = sent
    /\ got = FmtSize

====
